---- MODULE Spec2Model ----
(***************************************************************************)
(* Model of notebooks/Dask-MPI_Volume_Render.ipynb: the Jupyter client     *)
(* connects to a Dask-MPI cluster, loads a volume as a distributed array,  *)
(* spawns one PVRenderActor task per worker, pushes the set-up closure     *)
(* workerState to every actor and opens a PVDisplay widget on the actors.  *)
(*                                                                         *)
(* Python indexes from 0 and TLA+ tuples from 1: dims[1] here is dims[0]   *)
(* of the notebook.  Slices, blocks, workers and actors are numbered from  *)
(* 0 as in the notebook.                                                   *)
(***************************************************************************)
EXTENDS Integers, Sequences, FiniteSets, TLC

VARIABLES
    pc,          \* the statement the Jupyter kernel executes next
    err,         \* the exception raised in the kernel ("none": no exception)
    workers,     \* number of worker processes of the cluster
    N,           \* the notebook's N (0 before the client is connected)
    dims,        \* the notebook's dims
    fileExists,  \* os.path.exists(filename)
    fileLen,     \* length in bytes of the file at filename
    fetches,     \* calls of urlretrieve so far
    fetchesOk,   \* calls of urlretrieve that returned
    loadRuns,    \* executions of the load cell so far
    parts,       \* the list parts: the delayed getChunk calls
    chunks,      \* ar.chunks[0]: the thickness of every block of ar
    blockState,  \* block -> "pending" | "finished" | "error" (its future)
    blockWorker, \* block -> the worker that holds its data (-1: none)
    reads,       \* slice -> <<first byte, byte after the last>> getChunk read
    actors,      \* index in renderers -> [state, worker, rank, ext, values]
    futures,     \* the list [r.run(workerState, [ar]) for r in renderers]
    setup,       \* index in renderers -> status of its r.run future
    submits,     \* index in renderers -> r.run calls submitted to it
    runs,        \* index in renderers -> executions of workerState on it
    widget,      \* PVDisplay(renderers) has been constructed
    framenum     \* frames the widget has requested from the actors

vars == <<pc, err, workers, N, dims, fileExists, fileLen, fetches, fetchesOk,
          loadRuns, parts, chunks, blockState, blockWorker, reads, actors,
          futures, setup, submits, runs, widget, framenum>>

(* ------------------------------ bounds --------------------------------- *)
MaxWorkers == 2
MaxDim0 == 3
MaxDim1 == 2
MaxDim2 == 2
MaxFrames == 2
MaxLoadRuns == 2

(* -------------------------- program constants -------------------------- *)
\* dims = [432,432,432]
ProgramDims == <<432, 432, 432>>
\* the literal 4 of f.seek(n*sz*4)
SeekStride == 4
\* the size in bytes of one np.float32
Float32Size == 4

Min(a, b) == IF a < b THEN a ELSE b
Max(a, b) == IF a > b THEN a ELSE b

\* The bytes of the data file: byte i of the download.  Any two aligned or
\* misaligned 4-byte windows of the modelled files differ.
FileByte(i) == i % 251

\* the size in bytes of the complete download: dims[0]*dims[1]*dims[2] floats
FileSize(d) == d[1] * d[2] * d[3] * Float32Size

\* the lengths an interrupted urlretrieve leaves behind
PartialLens(d) == {0, FileSize(d) \div 2}

(* ------------------------------ getChunk ------------------------------- *)
\* sz = shape[0]*shape[1]*shape[2]
ChunkSize(shape) == shape[1] * shape[2] * shape[3]

SeekOffsetUnscaled(n, sz) == n * sz
\* f.seek(n*sz*4)
SeekOffset(n, sz) == n * sz * SeekStride

\* np.fromfile(f, dtype, count=sz): the number of items read at offset off
\* of a file of len bytes
ItemsRead(len, off, sz) ==
    IF off >= len THEN 0 ELSE Min(sz, (len - off) \div Float32Size)

\* the float32 at byte offset o: its four bytes
FloatAt(o) == <<FileByte(o), FileByte(o + 1), FileByte(o + 2), FileByte(o + 3)>>

\* getChunk(fn, n, shape, dtype), the bytes np.fromfile consumed:
\* <<first byte, byte after the last>>
getChunkRange(len, n, shape) ==
    LET sz  == ChunkSize(shape)
        off == SeekOffset(n, sz)
    IN  <<off, off + ItemsRead(len, off, sz) * Float32Size>>

\* getChunk(fn, n, shape, dtype), the flat content np.fromfile returned
getChunkData(len, n, shape) ==
    LET sz  == ChunkSize(shape)
        off == SeekOffset(n, sz)
    IN  [k \in 1..ItemsRead(len, off, sz) |-> FloatAt(off + (k - 1) * Float32Size)]

\* getChunk(fn, n, shape, dtype): reshape(shape) accepts what was read (it
\* raises ValueError on any other number of items)
getChunkOk(len, n, shape) ==
    LET sz == ChunkSize(shape)
    IN  ItemsRead(len, SeekOffset(n, sz), sz) = sz

(* ------------------------------ rechunk -------------------------------- *)
\* dims[0]/N, the slab thickness handed to rechunk: the integer quotient
\* (Python 2 division; under Python 3 the float quotient is truncated when
\* the chunks are normalised)
SlabThickness(d0, n) == d0 \div n

\* the chunks of an axis of length d cut in blocks of bd: full blocks, then
\* the remainder when there is one
BlockDims(d, bd) ==
    [b \in 1..((d \div bd) + (IF d % bd = 0 THEN 0 ELSE 1)) |->
        IF b <= d \div bd THEN bd ELSE d % bd]

Blocks == 0..(Len(chunks) - 1)
Workers == 0..(N - 1)
Renderers == 0..(N - 1)

\* the first slice of block b
RECURSIVE BlockStart(_)
BlockStart(b) == IF b = 0 THEN 0 ELSE BlockStart(b - 1) + chunks[b]

SlicesOf(b) == BlockStart(b)..(BlockStart(b) + chunks[b + 1] - 1)

NoActor == [state |-> "none", worker |-> -1, rank |-> -1, ext |-> <<>>,
            wext |-> <<>>, values |-> 0]

(* ------------------------------- Init ---------------------------------- *)
InitCommon ==
    /\ pc = "connect"
    /\ err = "none"
    /\ workers \in 1..MaxWorkers
    /\ N = 0
    /\ \/ fileExists = FALSE /\ fileLen = 0
       \/ fileExists = TRUE /\ fileLen \in {FileSize(dims)} \cup PartialLens(dims)
    /\ fetches = 0
    /\ fetchesOk = 0
    /\ loadRuns = 0
    /\ parts = <<>>
    /\ chunks = <<>>
    /\ blockState = <<>>
    /\ blockWorker = <<>>
    /\ reads = <<>>
    /\ actors = <<>>
    /\ futures = <<>>
    /\ setup = <<>>
    /\ submits = <<>>
    /\ runs = <<>>
    /\ widget = FALSE
    /\ framenum = 0

Init ==
    /\ dims \in {<<a, b, c>> : a \in 1..MaxDim0, b \in 1..MaxDim1, c \in 1..MaxDim2}
    /\ InitCommon

InitProgram ==
    /\ dims = ProgramDims
    /\ InitCommon

(* ----------------------------- the client ------------------------------ *)
Raise(e) == pc' = "halted" /\ err' = e

\* Client(scheduler_file=...); N = len(client.scheduler_info()['workers'])
Connect ==
    /\ pc = "connect"
    /\ \/ N' = workers /\ pc' = "cache" /\ err' = err /\ loadRuns' = loadRuns + 1
       \/ Raise("connect") /\ N' = N /\ loadRuns' = loadRuns
    /\ UNCHANGED <<workers, dims, fileExists, fileLen, fetches, fetchesOk,
                   parts, chunks, blockState, blockWorker, reads, actors,
                   futures, setup, submits, runs, widget, framenum>>

\* the load cell, lines 50-53: the download is skipped when the file exists
NeedsDownloadAlways(exists) == TRUE
NeedsDownload(exists) == ~exists

CacheHit ==
    /\ pc = "cache"
    /\ ~NeedsDownload(fileExists)
    /\ pc' = "parts"
    /\ UNCHANGED <<err, workers, N, dims, fileExists, fileLen, fetches,
                   fetchesOk, loadRuns, parts, chunks, blockState, blockWorker,
                   reads, actors, futures, setup, submits, runs, widget,
                   framenum>>

\* urlretrieve(url, filename): returns with the whole file written, or raises
\* before the file is created, or raises leaving a truncated file
Download ==
    /\ pc = "cache"
    /\ NeedsDownload(fileExists)
    /\ fetches' = fetches + 1
    /\ \/ /\ fileExists' = TRUE
          /\ fileLen' = FileSize(dims)
          /\ fetchesOk' = fetchesOk + 1
          /\ pc' = "parts"
          /\ err' = err
       \/ /\ Raise("download")
          /\ UNCHANGED <<fileExists, fileLen, fetchesOk>>
       \/ /\ Raise("download")
          /\ fileExists' = TRUE
          /\ fileLen' \in PartialLens(dims)
          /\ fetchesOk' = fetchesOk
    /\ UNCHANGED <<workers, N, dims, loadRuns, parts, chunks, blockState,
                   blockWorker, reads, actors, futures, setup, submits, runs,
                   widget, framenum>>

\* one iteration of the list comprehension that builds parts:
\* da.from_delayed(dask.delayed(getChunk)(filename, n, shape, dtype), ...)
\* for n in range(0, dims[0]), with shape = [1, dims[1], dims[2]]
MakePart ==
    /\ pc = "parts"
    /\ Len(parts) < dims[1]
    /\ parts' = Append(parts, [n |-> Len(parts), shape |-> <<1, dims[2], dims[3]>>])
    /\ pc' = IF Len(parts') = dims[1] THEN "rechunk" ELSE "parts"
    /\ UNCHANGED <<err, workers, N, dims, fileExists, fileLen, fetches,
                   fetchesOk, loadRuns, chunks, blockState, blockWorker, reads,
                   actors, futures, setup, submits, runs, widget, framenum>>

\* ar = da.concatenate(parts); ar = ar.rechunk([dims[0]/N, ...]).persist()
\* A slab thickness of 0 is refused by rechunk; persist submits one task per
\* block and returns at once.
Rechunk ==
    /\ pc = "rechunk"
    /\ LET bd == SlabThickness(dims[1], N) IN
       IF bd = 0
       THEN /\ Raise("rechunk")
            /\ UNCHANGED <<chunks, blockState, blockWorker>>
       ELSE /\ chunks' = BlockDims(Len(parts), bd)
            /\ blockState' = [b \in 0..(Len(chunks') - 1) |-> "pending"]
            /\ blockWorker' = [b \in 0..(Len(chunks') - 1) |-> -1]
            /\ pc' = "wait_ar"
            /\ err' = err
    /\ UNCHANGED <<workers, N, dims, fileExists, fileLen, fetches, fetchesOk,
                   loadRuns, parts, reads, actors, futures, setup, submits,
                   runs, widget, framenum>>

\* a worker w, chosen by the scheduler, runs the tasks of block b: getChunk
\* for every slice of the block, then the concatenation into one slab
BlockRun(b, w) ==
    /\ b \in Blocks
    /\ blockState[b] = "pending"
    /\ w \in Workers
    /\ LET ok == \A n \in SlicesOf(b) : getChunkOk(fileLen, n, parts[n + 1].shape) IN
       /\ blockState' = [blockState EXCEPT ![b] = IF ok THEN "finished" ELSE "error"]
       /\ blockWorker' = [blockWorker EXCEPT ![b] = IF ok THEN w ELSE -1]
    /\ reads' = [n \in (DOMAIN reads) \cup SlicesOf(b) |->
                    IF n \in SlicesOf(b)
                    THEN getChunkRange(fileLen, n, parts[n + 1].shape)
                    ELSE reads[n]]
    /\ UNCHANGED <<pc, err, workers, N, dims, fileExists, fileLen, fetches,
                   fetchesOk, loadRuns, parts, chunks, actors, futures, setup,
                   submits, runs, widget, framenum>>

\* wait(fs): returns once no future of fs is pending; it does not raise
\* for a future that ended in error
WaitAny(fs) == \E f \in DOMAIN fs : fs[f] # "pending"
WaitDone(fs) == \A f \in DOMAIN fs : fs[f] # "pending"

\* wait(ar)
WaitAr ==
    /\ pc = "wait_ar"
    /\ WaitDone(blockState)
    /\ pc' = "rebalance"
    /\ UNCHANGED <<err, workers, N, dims, fileExists, fileLen, fetches,
                   fetchesOk, loadRuns, parts, chunks, blockState, blockWorker,
                   reads, actors, futures, setup, submits, runs, widget,
                   framenum>>

\* the number of blocks whose data worker w holds under placement pl
Held(pl, w) == Cardinality({b \in DOMAIN pl : pl[b] = w})

\* client.rebalance(): the resident blocks are spread evenly over the
\* workers; a block that is not resident is not moved
Rebalanced(pl) ==
    /\ \A b \in DOMAIN pl : (pl[b] = -1) <=> (blockWorker[b] = -1)
    /\ \A v, w \in Workers : Held(pl, v) - Held(pl, w) <= 1

Rebalance ==
    /\ pc = "rebalance"
    /\ \E pl \in [Blocks -> Workers \cup {-1}] :
          /\ Rebalanced(pl)
          /\ blockWorker' = pl
    /\ pc' = "map"
    /\ UNCHANGED <<err, workers, N, dims, fileExists, fileLen, fetches,
                   fetchesOk, loadRuns, parts, chunks, blockState, reads, actors,
                   futures, setup, submits, runs, widget, framenum>>

(* ------------------------------ the actors ----------------------------- *)
\* client.map(PVRenderActor, range(N), actor=True): one task per element of
\* range(N); no worker is named, the scheduler places each task
Map ==
    /\ pc = "map"
    /\ actors' = [i \in Renderers |-> [NoActor EXCEPT !.state = "pending"]]
    /\ pc' = "gather"
    /\ UNCHANGED <<err, workers, N, dims, fileExists, fileLen, fetches,
                   fetchesOk, loadRuns, parts, chunks, blockState, blockWorker,
                   reads, futures, setup, submits, runs, widget, framenum>>

\* PVRenderActor.__init__(x): the actor's rank is the rank of the worker
\* process that hosts it
ActorRank(x, w) == w

\* the task PVRenderActor(i) runs on the worker w the scheduler chose
ActorInit(i, w) ==
    /\ i \in DOMAIN actors
    /\ actors[i].state = "pending"
    /\ w \in Workers
    /\ actors' = [actors EXCEPT ![i] = [@ EXCEPT !.state = "created",
                                                 !.worker = w,
                                                 !.rank = ActorRank(i, w)]]
    /\ UNCHANGED <<pc, err, workers, N, dims, fileExists, fileLen, fetches,
                   fetchesOk, loadRuns, parts, chunks, blockState, blockWorker,
                   reads, futures, setup, submits, runs, widget, framenum>>

\* renderers = client.gather(...): returns once every actor exists
Gather ==
    /\ pc = "gather"
    /\ \A i \in DOMAIN actors : actors[i].state # "pending"
    /\ pc' = "run"
    /\ futures' = <<>>
    /\ setup' = [i \in Renderers |-> "none"]
    /\ submits' = [i \in Renderers |-> 0]
    /\ runs' = [i \in Renderers |-> 0]
    /\ UNCHANGED <<err, workers, N, dims, fileExists, fileLen, fetches,
                   fetchesOk, loadRuns, parts, chunks, blockState, blockWorker,
                   reads, actors, widget, framenum>>

\* the k-th iteration of [r.run(workerState, [ar]) for r in renderers]
\* submits to renderers[k]
RunTargetFirst(k) == 0
RunTarget(k) == k

SubmitRun ==
    /\ pc = "run"
    /\ LET r == RunTarget(Len(futures)) IN
       /\ futures' = Append(futures, r)
       /\ setup' = [setup EXCEPT ![r] = "pending"]
       /\ submits' = [submits EXCEPT ![r] = @ + 1]
    /\ pc' = IF Len(futures') = N THEN "wait_run" ELSE "run"
    /\ UNCHANGED <<err, workers, N, dims, fileExists, fileLen, fetches,
                   fetchesOk, loadRuns, parts, chunks, blockState, blockWorker,
                   reads, actors, runs, widget, framenum>>

\* ext = [0,dims[0]-1, 0,dims[1]-1, max(rank*dims[2]-1,0),(rank+1)*dims[2]-1]
Ext(rank, ld) ==
    <<0, ld[1] - 1, 0, ld[2] - 1, Max(rank * ld[3] - 1, 0), (rank + 1) * ld[3] - 1>>

\* wext = [0,wdims[0]-1, 0,wdims[1]-1, 0,wdims[2]-1]
WholeExt(wd) == <<0, wd[1] - 1, 0, wd[2] - 1, 0, wd[3] - 1>>

\* arr.shape[::-1], arr being the concatenation of the parts
WDims == <<dims[3], dims[2], Len(parts)>>

\* arr.blocks[rank].shape[::-1]
LocalDims(rank) == <<dims[3], dims[2], chunks[rank + 1]>>

\* an actor executes a submitted call once
CanRun(i) == setup[i] = "pending"

\* workerState(self, arr) on actor i: arr.blocks[self.rank].compute() raises
\* when there is no such block or the block's tasks failed; otherwise the
\* image data is built over ext and shown
RunWorkerState(i) ==
    /\ i \in DOMAIN setup
    /\ CanRun(i)
    /\ runs' = [runs EXCEPT ![i] = @ + 1]
    /\ LET rank == actors[i].rank IN
       IF rank \in Blocks /\ blockState[rank] = "finished"
       THEN /\ actors' = [actors EXCEPT ![i] =
                    [@ EXCEPT !.state = "built",
                              !.ext = Ext(rank, LocalDims(rank)),
                              !.wext = WholeExt(WDims),
                              !.values = LocalDims(rank)[1] * LocalDims(rank)[2]
                                             * LocalDims(rank)[3]]]
            /\ setup' = [setup EXCEPT ![i] = "finished"]
       ELSE /\ actors' = [actors EXCEPT ![i] = [@ EXCEPT !.state = "failed"]]
            /\ setup' = [setup EXCEPT ![i] = "error"]
    /\ UNCHANGED <<pc, err, workers, N, dims, fileExists, fileLen, fetches,
                   fetchesOk, loadRuns, parts, chunks, blockState, blockWorker,
                   reads, futures, submits, widget, framenum>>

\* wait([r.run(workerState, [ar]) for r in renderers])
WaitRun ==
    /\ pc = "wait_run"
    /\ WaitDone(setup)
    /\ pc' = "display"
    /\ UNCHANGED <<err, workers, N, dims, fileExists, fileLen, fetches,
                   fetchesOk, loadRuns, parts, chunks, blockState, blockWorker,
                   reads, actors, futures, setup, submits, runs, widget,
                   framenum>>

\* w = PVDisplay(renderers); display(w)
Display ==
    /\ pc = "display"
    /\ widget' = TRUE
    /\ pc' = "interactive"
    /\ UNCHANGED <<err, workers, N, dims, fileExists, fileLen, fetches,
                   fetchesOk, loadRuns, parts, chunks, blockState, blockWorker,
                   reads, actors, futures, setup, submits, runs, framenum>>

\* the widget asks every actor of renderers for a frame
FrameRequest ==
    /\ pc = "interactive"
    /\ widget
    /\ framenum < MaxFrames
    /\ framenum' = framenum + 1
    /\ UNCHANGED <<pc, err, workers, N, dims, fileExists, fileLen, fetches,
                   fetchesOk, loadRuns, parts, chunks, blockState, blockWorker,
                   reads, actors, futures, setup, submits, runs, widget>>

\* the user executes the load cell again, after it raised or after it ended
ReExecuteLoad ==
    /\ \/ pc = "halted" /\ err \in {"download", "rechunk"}
       \/ pc = "map"
    /\ loadRuns < MaxLoadRuns
    /\ loadRuns' = loadRuns + 1
    /\ pc' = "cache"
    /\ err' = "none"
    /\ parts' = <<>>
    /\ chunks' = <<>>
    /\ blockState' = <<>>
    /\ blockWorker' = <<>>
    /\ reads' = <<>>
    /\ UNCHANGED <<workers, N, dims, fileExists, fileLen, fetches, fetchesOk,
                   actors, futures, setup, submits, runs, widget, framenum>>

Next ==
    \/ Connect
    \/ CacheHit
    \/ Download
    \/ MakePart
    \/ Rechunk
    \/ \E b \in Blocks, w \in Workers : BlockRun(b, w)
    \/ WaitAr
    \/ Rebalance
    \/ Map
    \/ \E i \in Renderers, w \in Workers : ActorInit(i, w)
    \/ Gather
    \/ SubmitRun
    \/ \E i \in Renderers : RunWorkerState(i)
    \/ WaitRun
    \/ Display
    \/ FrameRequest

NextReload == Next \/ ReExecuteLoad

\* one execution of the notebook, top to bottom, on scaled-down dims
Spec == Init /\ [][Next]_vars

\* the same, with the load cell executed again by the user
SpecReload == Init /\ [][NextReload]_vars

\* one execution of the notebook with the dims of the notebook
SpecProgram == InitProgram /\ [][Next]_vars

(* ------------------------------ the claims ----------------------------- *)
\* the client's positions after the load cell, after the actor cell, and
\* after the set-up cell
AfterLoad == {"map", "gather", "run", "wait_run", "display", "interactive"}
AfterGather == {"run", "wait_run", "display", "interactive"}
AfterSetup == {"display", "interactive"}

LoadSucceeded == \A b \in Blocks : blockState[b] = "finished"
HostedOn(w) == {i \in DOMAIN actors : actors[i].worker = w}

\* C1: after the load step, whatever N >= 1, the array has exactly N blocks
\* along its first axis and every worker holds exactly one of them (stated
\* for the loads in which every block was read without error).
C1_OneBlockPerWorker ==
    (pc \in AfterLoad /\ LoadSucceeded) =>
        /\ Len(chunks) = N
        /\ \A w \in Workers : Held(blockWorker, w) = 1

\* C2: once client.map(PVRenderActor, range(N), actor=True) is gathered,
\* every worker hosts exactly one actor and the actors carry the distinct
\* ranks 0..N-1, whatever placement the scheduler chose.
C2_OneActorPerWorker ==
    pc \in AfterGather =>
        /\ \A w \in Workers : Cardinality(HostedOn(w)) = 1
        /\ {actors[i].rank : i \in DOMAIN actors} = Workers
        /\ \A i, j \in DOMAIN actors : actors[i].rank = actors[j].rank => i = j

\* C3: every actor builds its pipeline from the block resident on its own
\* worker, and every block is consumed by exactly one actor (stated for the
\* runs in which there are N blocks, one actor per worker, and every set-up
\* succeeded).
C3_LocalShard ==
    ( /\ pc \in AfterSetup
      /\ Len(chunks) = N
      /\ \A w \in Workers : Cardinality(HostedOn(w)) = 1
      /\ \A i \in DOMAIN actors : actors[i].state = "built" ) =>
        /\ \A i \in DOMAIN actors : blockWorker[actors[i].rank] = actors[i].worker
        /\ \A b \in Blocks :
              Cardinality({i \in DOMAIN actors : actors[i].rank = b}) = 1

C5_SetupOnce ==
    /\ \A i \in DOMAIN submits : submits[i] <= 1 /\ runs[i] <= 1
    /\ pc \in {"wait_run"} \cup AfterSetup =>
          /\ DOMAIN submits = Renderers
          /\ \A i \in Renderers : submits[i] = 1
    /\ pc \in AfterSetup => \A i \in Renderers : runs[i] = 1

C5_Witness ==
    /\ framenum > 1
    /\ N > 1
    /\ \E i \in Renderers : setup[i] = "error" /\ runs[i] = 1
    /\ \E i \in Renderers : setup[i] = "finished" /\ runs[i] = 1

\* C6, as stated: over any number of executions of the load cell the URL is
\* fetched at most once.
C6_FetchedAtMostOnce == fetches <= 1

\* C6, amended: the download runs if and only if no file exists at the path;
\* at most one fetch ever completes, and once a file exists at the path no
\* further fetch happens (a fetch that failed before the file was created is
\* made again by the next execution of the load cell).
C6_FetchOnlyWhenAbsent ==
    [][ /\ (fetches' # fetches) => (~fileExists /\ fetches' = fetches + 1)
        /\ (pc = "cache" /\ pc' # "cache" /\ ~fileExists) => fetches' = fetches + 1
        /\ fileExists => (fileExists' /\ fetches' = fetches)
        /\ fetchesOk' <= 1 ]_vars

C6_Witness ==
    /\ loadRuns > 1
    /\ fetches > 1
    /\ fetchesOk = 1
    /\ fileExists
    /\ pc = "parts"

\* C7: the parallel load launches 128 tasks, one per chunk.
C7_Tasks128 ==
    pc \in {"rechunk", "wait_ar", "rebalance"} \cup AfterLoad => Len(parts) = 128

\* C8: a failure in any step reaches the client as an error and no later
\* step is carried out as if the step had succeeded: the widget is
\* constructed only if every block was loaded and every actor's set-up
\* succeeded.
C8_FailurePropagates ==
    widget =>
        /\ \A b \in Blocks : blockState[b] = "finished"
        /\ \A i \in Renderers : setup[i] = "finished"

\* the float32 content of the complete file, in file order
FileFloats == [k \in 1..(dims[1] * dims[2] * dims[3]) |-> FloatAt((k - 1) * Float32Size)]

\* the chunks of parts[k..], concatenated in order
RECURSIVE ConcatChunks(_)
ConcatChunks(k) ==
    IF k > Len(parts) THEN <<>>
    ELSE getChunkData(fileLen, parts[k].n, parts[k].shape) \o ConcatChunks(k + 1)

\* C9: with the complete file in place, getChunk(fn, n, [1,d1,d2], float32)
\* reads bytes [n*d1*d2*4, (n+1)*d1*d2*4): the ranges of distinct slices are
\* disjoint, those of adjacent slices contiguous, all of them together are
\* the whole file, and the chunks concatenated in order of n are the file's
\* flat content.
C9_ChunksTileFile ==
    fileLen = FileSize(dims) =>
        /\ \A n \in DOMAIN reads :
              reads[n] = <<n * dims[2] * dims[3] * 4, (n + 1) * dims[2] * dims[3] * 4>>
        /\ \A n, m \in DOMAIN reads : n < m => reads[n][2] <= reads[m][1]
        /\ \A n \in DOMAIN reads :
              (n + 1) \in DOMAIN reads => reads[n][2] = reads[n + 1][1]
        /\ DOMAIN reads = 0..(dims[1] - 1) =>
              /\ reads[0][1] = 0
              /\ reads[dims[1] - 1][2] = FileSize(dims)
              /\ ConcatChunks(1) = FileFloats

C9_Witness ==
    /\ fileLen = FileSize(dims)
    /\ dims[1] > 2
    /\ dims[2] * dims[3] > 1
    /\ N > 1
    /\ DOMAIN reads = 0..(dims[1] - 1)

\* the number of points of an image extent
Points(e) == (e[2] - e[1] + 1) * (e[4] - e[3] + 1) * (e[6] - e[5] + 1)

Inside(e, w) ==
    /\ w[1] <= e[1] /\ e[1] <= e[2] /\ e[2] <= w[2]
    /\ w[3] <= e[3] /\ e[3] <= e[4] /\ e[4] <= w[4]
    /\ w[5] <= e[5] /\ e[5] <= e[6] /\ e[6] <= w[6]

\* C10: for every rank, the extent workerState assigns describes exactly as
\* many points as the rank's block holds values, and lies inside the whole
\* extent.
C10_ExtentMatchesBlock ==
    \A i \in DOMAIN actors :
        actors[i].state = "built" =>
            /\ Points(actors[i].ext) = actors[i].values
            /\ Inside(actors[i].ext, actors[i].wext)

====
